---- MODULE Spec2Model ----
(***************************************************************************)
(* A model of the agent toolkit: the agent session (src/src/agent.py), the *)
(* configuration loader (src/src/config.py) and the two example tools      *)
(* (src/src/tools/example_tool.py).                                        *)
(*                                                                         *)
(* Text that the code formats or concatenates (message contents, the       *)
(* agent name, queries) is a sequence of string pieces, so "" is <<>> and  *)
(* an f-string is a concatenation with \o.  Identifiers (roles, tool       *)
(* names, operation names) are plain strings.                              *)
(*                                                                         *)
(* Message objects live in a heap and lists hold references (heap ids),    *)
(* because list.copy() is a shallow copy.                                  *)
(***************************************************************************)
EXTENDS Integers, Sequences, FiniteSets, TLC

VARIABLES
    config,                 \* ADKAgent.config (an AppConfig), or the one being built
    conversation_history,   \* ADKAgent.conversation_history: list of references
    tools,                  \* ADKAgent.tools: dict name -> tool
    heap,                   \* the Message objects created by process, by id
    snapshot,               \* the list the caller got from get_history
    callerMsg,              \* a Message object the caller made itself (id 0)
    callerOps,              \* number of caller mutations so far
    registered,             \* history: name -> tool last passed to register_tool
    ret,                    \* what the most recent call on the agent returned
    env,                    \* os.environ, as the configuration loader sees it
    loader,                 \* the construction of an AppConfig in progress
    calc,                   \* a CalculatorInput and what execute made of it
    search                  \* a WebSearchInput and what execute made of it

agentVars == <<conversation_history, tools, heap, snapshot, callerMsg,
               callerOps, registered, ret>>

configVars == <<env, loader>>

toolVars == <<calc, search>>

vars == <<config, agentVars, configVars, toolVars>>

----------------------------------------------------------------------------
(* Bounds *)

\* process calls over a run (each creates two Message objects)
MaxTurns == 2

\* caller mutations (of the returned list or of a message in it) over a run
MaxCallerOps == 1

----------------------------------------------------------------------------
(* Values *)

None == "None"

\* a returned value, with its Python type
Returned(type, value) == [type |-> type, value |-> value]

ReturnedNone == Returned("NoneType", None)

\* the list get_history returned is the object the caller holds in snapshot
ReturnedList == Returned("list", "snapshot")

\* user inputs: the empty string and a blank one; process never looks into
\* its input, so the blank string stands for every non-empty input
UserInputs == { <<>>, <<" ">> }

ToolNames == {"calculator", "web_search"}

ToolObjects == {"CalculatorTool", "WebSearchTool"}

\* class Message(BaseModel): role: str, content: str
Message(role, content) == [role |-> role, content |-> content]

\* class AgentResponse(BaseModel)
AgentResponse(message, tool_calls, metadata) ==
    [message |-> message, tool_calls |-> tool_calls, metadata |-> metadata]

\* The configuration of the test fixture: AppConfig(api_key="test_api_key",
\* model=ModelConfig(name="gemini-1.5-pro", temperature=0.7),
\* agent=AgentConfig(name="Test Agent", debug=True))
test_config ==
    [status  |-> "ok",
     api_key |-> <<"test_api_key">>,
     model   |-> [name |-> <<"gemini-1.5-pro">>, temperature |-> 70,
                  top_p |-> 95, top_k |-> 40, max_output_tokens |-> 2048],
     agent   |-> [name |-> <<"Test Agent">>, debug |-> TRUE,
                  log_level |-> <<"INFO">>, log_format |-> <<"json">>]]

----------------------------------------------------------------------------
(* The agent session *)

CallerId == 0

\* the object a reference points to
Deref(id) == IF id = CallerId THEN callerMsg ELSE heap[id]

\* a list of references, seen as the list of Message values
Contents(refs) == [i \in 1..Len(refs) |-> Deref(refs[i])]

\* the f-string of process
response_text(cfg) ==
    <<"This is a placeholder response from ">> \o cfg.agent.name \o <<". ">>
        \o <<"Replace this with actual ADK implementation.">>

\* a registry that keeps the first tool registered under a name
register_tool_setdefault(d, name, tool) ==
    [n \in DOMAIN d \cup {name} |-> IF n \in DOMAIN d THEN d[n] ELSE tool]

\* self.tools[name] = tool
register_tool_setitem(d, name, tool) ==
    [n \in DOMAIN d \cup {name} |-> IF n = name THEN tool ELSE d[n]]

\* the turn counted before the two messages of the call are appended
turn_before_append(history) == (Len(history) - 2) \div 2

\* len(self.conversation_history) // 2
turn(history) == Len(history) \div 2

\* a reset that drops the last message only
clear_pop(list) == SubSeq(list, 1, Len(list) - 1)

\* self.conversation_history.clear()
clear(list) == <<>>

\* get_history handing out the agent's own list
copy_alias(list) == [held |-> TRUE, obj |-> "same", items |-> <<>>]

\* self.conversation_history.copy(): a new list object with the same elements
copy(list) == [held |-> TRUE, obj |-> "new", items |-> list]

\* the assistant message recorded before the user message
new_messages_swapped(user_input, text) ==
    << Message("assistant", text), Message("user", user_input) >>

\* the two Message objects process creates, in the order it appends them
new_messages(user_input, text) ==
    << Message("user", user_input), Message("assistant", text) >>

\* no construction of an AppConfig in progress
LoaderIdle ==
    [pc |-> "idle", via |-> "none", reads |-> <<>>, error |-> "none",
     api_key |-> <<>>, model |-> test_config.model, agent |-> test_config.agent]

\* the environment of the test run: nothing the loader reads is set
EmptyEnv ==
    [GOOGLE_API_KEY |-> [set |-> FALSE, value |-> <<>>],
     MODEL_NAME |-> [set |-> FALSE, value |-> <<>>],
     TEMPERATURE |-> [set |-> FALSE, value |-> <<>>],
     TOP_P |-> [set |-> FALSE, value |-> <<>>],
     TOP_K |-> [set |-> FALSE, value |-> <<>>],
     MAX_OUTPUT_TOKENS |-> [set |-> FALSE, value |-> <<>>],
     AGENT_NAME |-> [set |-> FALSE, value |-> <<>>],
     DEBUG |-> [set |-> FALSE, value |-> <<>>],
     LOG_LEVEL |-> [set |-> FALSE, value |-> <<>>],
     LOG_FORMAT |-> [set |-> FALSE, value |-> <<>>]]

\* no tool input has been constructed
NoTool == [stage |-> "none"]

\* ADKAgent.__init__, with the configuration of the test fixture
Init ==
    /\ config = test_config
    /\ env = EmptyEnv
    /\ loader = LoaderIdle
    /\ calc = NoTool
    /\ search = NoTool
    /\ conversation_history = <<>>
    /\ tools = <<>>
    /\ heap = <<>>
    /\ snapshot = [held |-> FALSE, obj |-> "new", items |-> <<>>]
    /\ callerMsg = Message("user", <<"Hello">>)
    /\ callerOps = 0
    /\ registered = <<>>
    /\ ret = ReturnedNone

\* ADKAgent.register_tool
register_tool(name, tool) ==
    /\ tools' = register_tool_setitem(tools, name, tool)
    /\ registered' = [n \in DOMAIN registered \cup {name} |->
                        IF n = name THEN tool ELSE registered[n]]
    /\ ret' = ReturnedNone
    /\ UNCHANGED <<config, conversation_history, heap, snapshot, callerMsg,
                   callerOps, configVars, toolVars>>

\* ADKAgent.process
process(user_input) ==
    /\ Len(heap) + 2 <= 2 * MaxTurns
    /\ LET userId   == Len(heap) + 1
           asstId   == Len(heap) + 2
           text     == response_text(config)
           history1 == Append(conversation_history, userId)
           history2 == Append(history1, asstId)
       IN  /\ heap' = heap \o new_messages(user_input, text)
           /\ conversation_history' = history2
           /\ ret' = Returned("AgentResponse",
                               AgentResponse(text, None,
                                   [model |-> config.model.name,
                                    turn  |-> turn(history2)]))
    /\ UNCHANGED <<config, tools, snapshot, callerMsg, callerOps, registered,
                   configVars, toolVars>>

\* ADKAgent.reset
reset ==
    /\ conversation_history' = clear(conversation_history)
    /\ ret' = ReturnedNone
    /\ UNCHANGED <<config, tools, heap, snapshot, callerMsg, callerOps,
                   registered, configVars,
                   toolVars>>

\* ADKAgent.get_history; the caller keeps the returned list
get_history ==
    /\ snapshot' = copy(conversation_history)
    /\ ret' = ReturnedList
    /\ UNCHANGED <<config, conversation_history, tools, heap, callerMsg,
                   callerOps, registered, configVars,
                   toolVars>>

(* The caller, holding the list get_history returned.  snapshot.obj tells
   which list object that is: "new", a list of the caller's own whose
   elements are snapshot.items, or "same", the agent's own list.  The
   elements are the agent's Message objects either way. *)

CanMutate == snapshot.held /\ callerOps < MaxCallerOps

\* the elements of the list the caller holds
CallerList == IF snapshot.obj = "same" THEN conversation_history ELSE snapshot.items

\* the caller's list becomes newList
CallerListBecomes(newList) ==
    IF snapshot.obj = "same"
    THEN /\ conversation_history' = newList
         /\ UNCHANGED snapshot
    ELSE /\ snapshot' = [snapshot EXCEPT !.items = newList]
         /\ UNCHANGED conversation_history

RemoveAt(list, i) ==
    [j \in 1..(Len(list) - 1) |-> IF j < i THEN list[j] ELSE list[j + 1]]

\* history.append(Message(...))
CallerAppend ==
    /\ CanMutate
    /\ CallerListBecomes(Append(CallerList, CallerId))
    /\ callerOps' = callerOps + 1
    /\ UNCHANGED <<config, tools, heap, callerMsg, registered, ret, configVars,
                   toolVars>>

\* del history[i]
CallerRemove(i) ==
    /\ CanMutate
    /\ i \in 1..Len(CallerList)
    /\ CallerListBecomes(RemoveAt(CallerList, i))
    /\ callerOps' = callerOps + 1
    /\ UNCHANGED <<config, tools, heap, callerMsg, registered, ret, configVars,
                   toolVars>>

\* history[i] = Message(...)
CallerReplace(i) ==
    /\ CanMutate
    /\ i \in 1..Len(CallerList)
    /\ CallerListBecomes([CallerList EXCEPT ![i] = CallerId])
    /\ callerOps' = callerOps + 1
    /\ UNCHANGED <<config, tools, heap, callerMsg, registered, ret, configVars,
                   toolVars>>

\* what the caller writes into a message field
TamperedRole == "system"

TamperedContent == <<"tampered">>

\* obj.role = ... / obj.content = ... on a pydantic model without frozen=True
SetField(obj, field, value) == [obj EXCEPT ![field] = value]

\* history[i].role = "system" or history[i].content = "tampered"
CallerSetField(i, field) ==
    /\ CanMutate
    /\ i \in 1..Len(CallerList)
    /\ LET id    == CallerList[i]
           value == IF field = "role" THEN TamperedRole ELSE TamperedContent
       IN  IF id = CallerId
           THEN /\ callerMsg' = SetField(callerMsg, field, value)
                /\ UNCHANGED heap
           ELSE /\ heap' = [heap EXCEPT ![id] = SetField(@, field, value)]
                /\ UNCHANGED callerMsg
    /\ callerOps' = callerOps + 1
    /\ UNCHANGED <<config, conversation_history, tools, snapshot, registered,
                   ret, configVars, toolVars>>

\* the positions a list of the model can have
Positions == 1..(2 * MaxTurns + MaxCallerOps)

Next ==
    \/ CallerAppend
    \/ \E i \in Positions : CallerRemove(i)
    \/ \E i \in Positions : CallerReplace(i)
    \/ \E i \in Positions, field \in {"role", "content"} : CallerSetField(i, field)
    \/ \E name \in ToolNames, tool \in ToolObjects : register_tool(name, tool)
    \/ \E user_input \in UserInputs : process(user_input)
    \/ reset
    \/ get_history

Spec == Init /\ [][Next]_vars

\* the calls on the agent alone: a caller that only reads what it gets back
NextCalls ==
    \/ \E name \in ToolNames, tool \in ToolObjects : register_tool(name, tool)
    \/ \E user_input \in UserInputs : process(user_input)
    \/ reset
    \/ get_history

SpecCalls == Init /\ [][NextCalls]_vars

----------------------------------------------------------------------------
(* The configuration loader.  An environment value that the loader parses is
   a sequence of characters; numbers with a fraction are kept in hundredths
   (0.7 is 70), which is exact for the values drawn here. *)

Unset == [set |-> FALSE, value |-> <<>>]

Value(v) == [set |-> TRUE, value |-> v]

\* the environments the loader is run in
Environments ==
    [GOOGLE_API_KEY : {Unset, Value(<<>>), Value(<<"test_api_key">>)},
     MODEL_NAME : {Unset, Value(<<"gemini-1.5-flash">>)},
     TEMPERATURE : {Unset, Value(<<"1", ".", "2", "5">>), Value(<<"2", ".", "5">>),
                    Value(<<"h", "o", "t">>)},
     TOP_P : {Unset, Value(<<"1", ".", "5">>)},
     TOP_K : {Unset, Value(<<"0">>)},
     MAX_OUTPUT_TOKENS : {Unset, Value(<<"9", "0", "0", "0">>), Value(<<"4", "k">>)},
     AGENT_NAME : {Unset, Value(<<"Test Agent">>)},
     DEBUG : {Unset, Value(<<"T", "R", "U", "E">>)},
     LOG_LEVEL : {Unset, Value(<<"DEBUG">>)},
     LOG_FORMAT : {Unset, Value(<<"text">>)}]

\* os.getenv(name, default)
getenv(name, default) == IF env[name].set THEN env[name].value ELSE default

Digits == <<"0", "1", "2", "3", "4", "5", "6", "7", "8", "9">>

IsDigit(c) == \E d \in 1..10 : Digits[d] = c

DigitValue(c) == (CHOOSE d \in 1..10 : Digits[d] = c) - 1

AllDigits(str) == Len(str) > 0 /\ \A i \in 1..Len(str) : IsDigit(str[i])

RECURSIVE DigitsValue(_)
DigitsValue(str) ==
    IF str = <<>> THEN 0
    ELSE 10 * DigitsValue(SubSeq(str, 1, Len(str) - 1)) + DigitValue(str[Len(str)])

Parsed(value) == [ok |-> TRUE, value |-> value]

NotParsed == [ok |-> FALSE, value |-> 0]

\* int(str): a run of decimal digits, or ValueError
int(str) == IF AllDigits(str) THEN Parsed(DigitsValue(str)) ELSE NotParsed

\* the position of the decimal point, or 0
PointAt(str) ==
    IF \E i \in 1..Len(str) : str[i] = "."
    THEN CHOOSE i \in 1..Len(str) : str[i] = "." /\ \A j \in 1..(i - 1) : str[j] # "."
    ELSE 0

\* float(str), in hundredths: digits, or digits "." one or two digits; or
\* ValueError
float(str) ==
    LET p    == PointAt(str)
        whole == SubSeq(str, 1, p - 1)
        frac  == SubSeq(str, p + 1, Len(str))
    IN  IF p = 0
        THEN IF AllDigits(str) THEN Parsed(100 * DigitsValue(str)) ELSE NotParsed
        ELSE IF AllDigits(whole) /\ AllDigits(frac) /\ Len(frac) <= 2
             THEN Parsed(100 * DigitsValue(whole)
                         + (IF Len(frac) = 1 THEN 10 ELSE 1) * DigitsValue(frac))
             ELSE NotParsed

\* str.lower(), on the letters of the values drawn here
LowerChar(c) ==
    CASE c = "T" -> "t" [] c = "R" -> "r" [] c = "U" -> "u" [] c = "E" -> "e"
      [] OTHER -> c

lower(str) == [i \in 1..Len(str) |-> LowerChar(str[i])]

\* class ModelConfig: the fields, as passed in
ModelConfig(name, temperature, top_p, top_k, max_output_tokens) ==
    [name |-> name, temperature |-> temperature, top_p |-> top_p,
     top_k |-> top_k, max_output_tokens |-> max_output_tokens]

\* the Field constraints of ModelConfig (ge, le)
ModelConfigValid(m) ==
    /\ 0 <= m.temperature /\ m.temperature <= 200
    /\ 0 <= m.top_p /\ m.top_p <= 100
    /\ 1 <= m.top_k
    /\ 1 <= m.max_output_tokens /\ m.max_output_tokens <= 8192

\* ModelConfig(): every field at its default
ModelConfigDefault == ModelConfig(<<"gemini-1.5-pro">>, 70, 95, 40, 2048)

\* class AgentConfig
AgentConfig(name, debug, log_level, log_format) ==
    [name |-> name, debug |-> debug, log_level |-> log_level,
     log_format |-> log_format]

\* AgentConfig(): every field at its default
AgentConfigDefault == AgentConfig(<<"ADK Starter Agent">>, FALSE, <<"INFO">>, <<"json">>)

\* no AppConfig has been constructed
NoConfig ==
    [status |-> "none", api_key |-> <<>>, model |-> ModelConfigDefault,
     agent |-> AgentConfigDefault]

\* AppConfig(api_key=..., model=..., agent=...): api_key is a required str
\* field with no further constraint
AppConfig(api_key, model, agent) ==
    IF api_key.set
    THEN [status |-> "ok", api_key |-> api_key.value, model |-> model,
          agent |-> agent]
    ELSE [NoConfig EXCEPT !.status = "ValidationError"]

RequiredError == "ValueError: GOOGLE_API_KEY environment variable is required"

Raised(reads, error) ==
    [loader EXCEPT !.pc = "raised", !.via = "from_env", !.reads = reads,
                   !.error = error]

\* AppConfig.from_env: api_key = os.getenv("GOOGLE_API_KEY", ""), and the
\* check that it is not empty
from_env_api_key ==
    /\ loader.pc = "idle"
    /\ LET api_key == getenv("GOOGLE_API_KEY", <<>>)
       IN  loader' = IF api_key = <<>>
                     THEN Raised(<<"GOOGLE_API_KEY">>, RequiredError)
                     ELSE [loader EXCEPT !.pc = "model_config",
                                         !.via = "from_env",
                                         !.reads = <<"GOOGLE_API_KEY">>,
                                         !.api_key = api_key]
    /\ UNCHANGED <<config, env, agentVars, toolVars>>

\* AppConfig.from_env: model_config = ModelConfig(...).  The arguments are
\* evaluated in order, so a conversion that fails ends the reads.
from_env_model_config ==
    /\ loader.pc = "model_config"
    /\ LET order == <<"MODEL_NAME", "TEMPERATURE", "TOP_P", "TOP_K",
                      "MAX_OUTPUT_TOKENS">>
           name  == getenv("MODEL_NAME", <<"gemini-1.5-pro">>)
           temperature == float(getenv("TEMPERATURE", <<"0", ".", "7">>))
           top_p == float(getenv("TOP_P", <<"0", ".", "9", "5">>))
           top_k == int(getenv("TOP_K", <<"4", "0">>))
           max_output_tokens == int(getenv("MAX_OUTPUT_TOKENS", <<"2", "0", "4", "8">>))
           ok    == <<TRUE, temperature.ok, top_p.ok, top_k.ok, max_output_tokens.ok>>
           bad   == {i \in 1..5 : ~ok[i]}
           first == CHOOSE i \in bad : \A j \in bad : i <= j
           model == ModelConfig(name, temperature.value, top_p.value,
                                top_k.value, max_output_tokens.value)
       IN  loader' =
             IF bad # {}
             THEN Raised(loader.reads \o SubSeq(order, 1, first),
                         "ValueError: could not convert string")
             ELSE IF ~ModelConfigValid(model)
             THEN Raised(loader.reads \o order, "ValidationError")
             ELSE [loader EXCEPT !.pc = "agent_config",
                                 !.reads = @ \o order,
                                 !.model = model]
    /\ UNCHANGED <<config, env, agentVars, toolVars>>

\* AppConfig.from_env: agent_config = AgentConfig(...)
from_env_agent_config ==
    /\ loader.pc = "agent_config"
    /\ loader' =
         [loader EXCEPT
            !.pc = "construct",
            !.reads = @ \o <<"AGENT_NAME", "DEBUG", "LOG_LEVEL", "LOG_FORMAT">>,
            !.agent = AgentConfig(
                getenv("AGENT_NAME", <<"ADK Starter Agent">>),
                lower(getenv("DEBUG", <<"f", "a", "l", "s", "e">>))
                    = <<"t", "r", "u", "e">>,
                getenv("LOG_LEVEL", <<"INFO">>),
                getenv("LOG_FORMAT", <<"json">>))]
    /\ UNCHANGED <<config, env, agentVars, toolVars>>

\* AppConfig.from_env: return cls(api_key=api_key, model=..., agent=...)
from_env_return ==
    /\ loader.pc = "construct"
    /\ config' = AppConfig(Value(loader.api_key), loader.model, loader.agent)
    /\ loader' = [loader EXCEPT !.pc = "done"]
    /\ UNCHANGED <<env, agentVars, toolVars>>

\* the api_key arguments of a direct construction: none, "" and a key
DirectKeys == {Unset, Value(<<>>), Value(<<"test_api_key">>)}

\* AppConfig(api_key=...) called directly, as the test fixture does; model
\* and agent come from their default factories
construct_directly(api_key) ==
    /\ loader.pc = "idle"
    /\ config' = AppConfig(api_key, ModelConfigDefault, AgentConfigDefault)
    /\ loader' = [loader EXCEPT
                    !.pc = IF config'.status = "ok" THEN "done" ELSE "raised",
                    !.via = "direct",
                    !.error = IF config'.status = "ok" THEN "none"
                              ELSE config'.status]
    /\ UNCHANGED <<env, agentVars, toolVars>>

\* the process starts: no configuration yet; the agent is not under study
InitConfig ==
    /\ config = NoConfig
    /\ env \in Environments
    /\ loader = [LoaderIdle EXCEPT !.model = ModelConfigDefault,
                                   !.agent = AgentConfigDefault]
    /\ conversation_history = <<>>
    /\ tools = <<>>
    /\ heap = <<>>
    /\ snapshot = [held |-> FALSE, obj |-> "new", items |-> <<>>]
    /\ callerMsg = Message("user", <<"Hello">>)
    /\ callerOps = 0
    /\ registered = <<>>
    /\ ret = ReturnedNone
    /\ calc = NoTool
    /\ search = NoTool

NextConfig ==
    \/ from_env_api_key
    \/ from_env_model_config
    \/ from_env_agent_config
    \/ from_env_return
    \/ \E api_key \in DirectKeys : construct_directly(api_key)

SpecConfig == InitConfig /\ [][NextConfig]_vars

----------------------------------------------------------------------------
(* The example tools.  A float is an exact fraction n/d in lowest terms with
   d > 0, or NaN; rounding is not modelled.  A constructor argument that is
   not a number at all is Text. *)

\* how far outside [ge, le] the max_results arguments go
ProbeMargin == 2

Abs(n) == IF n < 0 THEN -n ELSE n

RECURSIVE GCD(_, _)
GCD(a, b) == IF b = 0 THEN a ELSE GCD(b, a % b)

\* the float n/d, d # 0
Rat(n, d) ==
    LET g == GCD(Abs(n), Abs(d))
        sign == IF d < 0 THEN -1 ELSE 1
    IN  [kind |-> "float", n |-> (sign * n) \div g, d |-> (sign * d) \div g]

NaN == [kind |-> "nan", n |-> 0, d |-> 1]

Text == [kind |-> "text", n |-> 0, d |-> 1]

IsNumber(x) == x.kind \in {"float", "nan"}

\* b != 0
NotEqualZero(b) == b.kind = "nan" \/ b.n # 0

\* a + b, a - b, a * b on floats
Add(a, b) ==
    IF a.kind = "nan" \/ b.kind = "nan" THEN NaN
    ELSE Rat(a.n * b.d + b.n * a.d, a.d * b.d)

Sub(a, b) ==
    IF a.kind = "nan" \/ b.kind = "nan" THEN NaN
    ELSE Rat(a.n * b.d - b.n * a.d, a.d * b.d)

Mul(a, b) ==
    IF a.kind = "nan" \/ b.kind = "nan" THEN NaN
    ELSE Rat(a.n * b.n, a.d * b.d)

\* what a lambda of the operations table gives: a value, None, or an
\* exception of the arithmetic
Some(x) == [tag |-> "value", value |-> x]

NoneResult == [tag |-> "None", value |-> NaN]

ZeroDivisionError == [tag |-> "ZeroDivisionError", value |-> NaN]

\* a / b on floats
Div(a, b) ==
    IF ~NotEqualZero(b) THEN ZeroDivisionError
    ELSE IF a.kind = "nan" \/ b.kind = "nan" THEN Some(NaN)
    ELSE Some(Rat(a.n * b.d, a.d * b.n))

\* a divide that tests the wrong operand
divide_tests_a(a, b) == IF NotEqualZero(a) THEN Div(a, b) ELSE NoneResult

\* "divide": lambda a, b: a / b if b != 0 else None
divide(a, b) == IF NotEqualZero(b) THEN Div(a, b) ELSE NoneResult

\* the keys of the operations dict
Operations == {"add", "subtract", "multiply", "divide"}

\* operations[operation](a, b)
operations(operation, a, b) ==
    CASE operation = "add" -> Some(Add(a, b))
      [] operation = "subtract" -> Some(Sub(a, b))
      [] operation = "multiply" -> Some(Mul(a, b))
      [] operation = "divide" -> divide(a, b)

\* the operation arguments: the four of the table and one other
OperationArgs == Operations \cup {"modulo"}

\* the number arguments
NumberArgs == {Rat(0, 1), Rat(1, 2), Rat(-3, 1), NaN, Text}

\* class CalculatorInput(BaseModel): operation is any str; a and b must be
\* numbers
CalculatorInputValid(operation, a, b) == IsNumber(a) /\ IsNumber(b)

\* class CalculatorOutput(BaseModel)
CalculatorOutput(result, operation) == [result |-> result, operation |-> operation]

NoCalculatorOutput == CalculatorOutput(NaN, "")

\* CalculatorInput(operation=..., a=..., b=...)
CalculatorInput(operation, a, b) ==
    /\ calc' = [stage  |-> IF CalculatorInputValid(operation, a, b)
                           THEN "constructed" ELSE "invalid",
                input  |-> [operation |-> operation, a |-> a, b |-> b],
                output |-> NoCalculatorOutput,
                error  |-> IF CalculatorInputValid(operation, a, b)
                           THEN "none" ELSE "ValidationError"]
    /\ UNCHANGED <<config, agentVars, configVars, search>>

InvalidOperation == "ValueError: Invalid operation"

DivisionByZero == "ValueError: Division by zero is not allowed"

\* a membership test that lets every operation through
any_operation(operation) == TRUE

\* input_data.operation not in operations, negated
known_operation(operation) == operation \in Operations

\* CalculatorTool.execute(input_data)
CalculatorTool_execute ==
    /\ calc.stage = "constructed"
    /\ LET in == calc.input
           result == operations(in.operation, in.a, in.b)
       IN  calc' =
             IF ~known_operation(in.operation)
             THEN [calc EXCEPT !.stage = "raised", !.error = InvalidOperation]
             ELSE IF in.operation \notin Operations
             THEN [calc EXCEPT !.stage = "raised", !.error = "KeyError"]
             ELSE IF result.tag = "None"
             THEN [calc EXCEPT !.stage = "raised", !.error = DivisionByZero]
             ELSE IF result.tag = "ZeroDivisionError"
             THEN [calc EXCEPT !.stage = "raised", !.error = "ZeroDivisionError"]
             ELSE [calc EXCEPT !.stage = "returned",
                               !.output = CalculatorOutput(result.value, in.operation)]
    /\ UNCHANGED <<config, agentVars, configVars, search>>

\* Field(default=5, ge=1, le=10) of WebSearchInput.max_results
MaxResultsDefault == 5

MaxResultsGe == 1

MaxResultsLe == 10

\* the max_results arguments: none given, and the integers around [ge, le]
MaxResultsArgs ==
    {[set |-> FALSE, value |-> 0]}
        \cup {[set |-> TRUE, value |-> n] :
                n \in (MaxResultsGe - ProbeMargin)..(MaxResultsLe + ProbeMargin)}

\* the query arguments
QueryArgs == { <<>>, <<"test query">> }

\* a max_results check without the upper bound
max_results_valid_ge_only(n) == MaxResultsGe <= n

\* ge=1, le=10
max_results_valid(n) == MaxResultsGe <= n /\ n <= MaxResultsLe

\* WebSearchInput(query=..., max_results=...)
WebSearchInput(query, max_results) ==
    /\ LET n == IF max_results.set THEN max_results.value ELSE MaxResultsDefault
       IN  search' =
             [stage  |-> IF max_results_valid(n) THEN "constructed" ELSE "invalid",
              args   |-> [query |-> query, max_results |-> max_results],
              input  |-> [query |-> query, max_results |-> n],
              output |-> [results |-> <<>>, query |-> <<>>],
              error  |-> IF max_results_valid(n) THEN "none" ELSE "ValidationError"]
    /\ UNCHANGED <<config, agentVars, configVars, calc>>

\* the placeholder results of WebSearchTool.execute
results(query) ==
    << [title   |-> <<"Result 1 for '">> \o query \o <<"'">>,
        url     |-> <<"https://example.com/1">>,
        snippet |-> <<"This is a placeholder search result.">>],
       [title   |-> <<"Result 2 for '">> \o query \o <<"'">>,
        url     |-> <<"https://example.com/2">>,
        snippet |-> <<"Another placeholder result.">>] >>

\* a slice that does not truncate
slice_all(list, stop) == list

\* list[:stop]
slice(list, stop) ==
    LET end == IF stop < 0
               THEN (IF Len(list) + stop < 0 THEN 0 ELSE Len(list) + stop)
               ELSE (IF stop > Len(list) THEN Len(list) ELSE stop)
    IN  SubSeq(list, 1, end)

\* class WebSearchOutput(BaseModel)
WebSearchOutput(res, query) == [results |-> res, query |-> query]

\* WebSearchTool.execute(input_data)
WebSearchTool_execute ==
    /\ search.stage = "constructed"
    /\ search' =
         [search EXCEPT
            !.stage = "returned",
            !.output = WebSearchOutput(
                slice(results(search.input.query), search.input.max_results),
                search.input.query)]
    /\ UNCHANGED <<config, agentVars, configVars, calc>>

\* the tools module is loaded; the agent and the loader are not under study
InitTools ==
    /\ config = test_config
    /\ env = EmptyEnv
    /\ loader = LoaderIdle
    /\ conversation_history = <<>>
    /\ tools = <<>>
    /\ heap = <<>>
    /\ snapshot = [held |-> FALSE, obj |-> "new", items |-> <<>>]
    /\ callerMsg = Message("user", <<"Hello">>)
    /\ callerOps = 0
    /\ registered = <<>>
    /\ ret = ReturnedNone
    /\ calc = NoTool
    /\ search = NoTool

NextTools ==
    \/ \E operation \in OperationArgs, a \in NumberArgs, b \in NumberArgs :
           CalculatorInput(operation, a, b)
    \/ CalculatorTool_execute
    \/ \E query \in QueryArgs, max_results \in MaxResultsArgs :
           WebSearchInput(query, max_results)
    \/ WebSearchTool_execute

SpecTools == InitTools /\ [][NextTools]_vars

----------------------------------------------------------------------------
(* Properties of the agent session, checked under Spec *)

\* the conversation history as the list of Message values
HistoryMessages == Contents(conversation_history)

\* a process call is possible (the model allows MaxTurns of them)
WithinTurns == Len(heap) + 2 <= 2 * MaxTurns

\* C1: for every agent state and every input string (the empty and a blank
\* one included) a call to process succeeds, and it appends exactly two
\* messages to the end of the history: a "user" message whose content is the
\* input, then an "assistant" message whose content is the returned
\* response message; the messages that were there keep their positions.
C1_ProcessAppendsUserThenAssistant ==
    /\ [](WithinTurns => \A u \in UserInputs : ENABLED process(u))
    /\ [][\A u \in UserInputs : process(u) =>
            /\ ret'.type = "AgentResponse"
            /\ HistoryMessages' =
                 HistoryMessages \o << [role |-> "user", content |-> u],
                                       [role |-> "assistant",
                                        content |-> ret'.value.message] >>
         ]_vars

\* C1 witness: a second process call, with the empty input, has appended its
\* two messages after the two of an earlier call with a blank input.
C1_Witness ==
    /\ Len(conversation_history) = 4
    /\ callerOps = 0
    /\ HistoryMessages[1].content = <<" ">>
    /\ HistoryMessages[3] = [role |-> "user", content |-> <<>>]
    /\ HistoryMessages[4].role = "assistant"
    /\ ret.type = "AgentResponse"

\* C2: every call to process returns a response whose metadata.turn is the
\* history length after the two appends, integer-divided by 2.
C2_TurnIsHalfTheHistoryLength ==
    [][\A u \in UserInputs : process(u) =>
          /\ ret'.type = "AgentResponse"
          /\ ret'.value.metadata.turn = Len(conversation_history') \div 2
          /\ Len(conversation_history') = Len(conversation_history) + 2
      ]_vars

\* C2 witness: process has returned turn 1 after a reset that followed an
\* earlier turn (two messages in the history, four created so far).
C2_Witness ==
    /\ ret.type = "AgentResponse"
    /\ ret.value.metadata.turn = 1
    /\ Len(conversation_history) = 2
    /\ Len(heap) = 4

\* C3: reset empties the history from any reachable state and changes
\* nothing else of the agent; it is idempotent (a reset of the state a reset
\* leaves changes nothing), and it succeeds on an empty history too.
C3_ResetClearsAndIsIdempotent ==
    /\ [](ENABLED reset)
    /\ [](clear(clear(conversation_history)) = clear(conversation_history))
    /\ [][reset =>
            /\ conversation_history' = <<>>
            /\ clear(conversation_history') = conversation_history'
            /\ UNCHANGED <<config, tools, heap>>
         ]_vars

\* C3 witness: the history is empty after two process calls, so a reset has
\* cleared a non-empty history.
C3_Witness ==
    /\ conversation_history = <<>>
    /\ Len(heap) = 4
    /\ ret = ReturnedNone

\* the caller changes the list it got: append, remove or replace an element
CallerListStep ==
    \/ CallerAppend
    \/ \E i \in Positions : CallerRemove(i)
    \/ \E i \in Positions : CallerReplace(i)

\* C4: get_history returns a snapshot copy: the returned list equals the
\* history at the time of the call, the call changes no agent state, and a
\* caller's append, remove or replace on the returned list changes neither
\* the internal history nor what a later get_history returns.
C4_GetHistoryReturnsACopy ==
    [][ /\ get_history =>
             /\ CallerList' = conversation_history
             /\ UNCHANGED <<config, conversation_history, tools, heap>>
        /\ CallerListStep =>
             /\ conversation_history' = conversation_history
             /\ HistoryMessages' = HistoryMessages
             /\ copy(conversation_history').items = copy(conversation_history).items
      ]_vars

\* C4 witness: the caller holds a list it has changed, which differs from the
\* non-empty history it was copied from.
C4_Witness ==
    /\ snapshot.held
    /\ callerOps > 0
    /\ Len(conversation_history) = 2
    /\ Len(CallerList) = 3
    /\ CallerList # conversation_history

\* a register_tool call
RegisterStep == \E name \in ToolNames, tool \in ToolObjects : register_tool(name, tool)

\* C5: register_tool is last-write-wins: the registry holds exactly the names
\* passed to register_tool so far, each mapped to the tool most recently
\* registered under it; registering a used name never fails and adds no
\* second entry, and only register_tool changes the registry.
C5_RegistryIsLastWriteWins ==
    /\ [](/\ DOMAIN tools = DOMAIN registered
          /\ \A n \in DOMAIN tools : tools[n] = registered[n]
          /\ \A n \in ToolNames, t \in ToolObjects : ENABLED register_tool(n, t))
    /\ [][ /\ tools' # tools => RegisterStep
           /\ \A n \in ToolNames, t \in ToolObjects : register_tool(n, t) =>
                /\ DOMAIN tools' = DOMAIN tools \cup {n}
                /\ tools'[n] = t
                /\ \A m \in DOMAIN tools \ {n} : tools'[m] = tools[m]
         ]_vars

\* C5 witness: "calculator" was registered twice, with different tools, and
\* the registry holds the second, beside another entry.
C5_Witness ==
    /\ DOMAIN tools = ToolNames
    /\ tools["calculator"] = "WebSearchTool"
    /\ tools["web_search"] = "WebSearchTool"

----------------------------------------------------------------------------
(* Properties of the configuration loader, checked under SpecConfig *)

\* GOOGLE_API_KEY is missing from the environment, or empty
NoKeyInEnv == ~env.GOOGLE_API_KEY.set \/ env.GOOGLE_API_KEY.value = <<>>

\* C6: AppConfig upholds the invariant that api_key is non-empty: every
\* construction yields a configuration with a non-empty api_key or fails;
\* loading from an environment without a (non-empty) GOOGLE_API_KEY fails,
\* before any other field is read or validated.
C6_ApiKeyNonEmptyOrConstructionFails ==
    /\ config.status = "ok" => config.api_key # <<>>
    /\ (loader.via = "from_env" /\ NoKeyInEnv) =>
          /\ loader.pc = "raised"
          /\ loader.error = RequiredError
          /\ loader.reads = <<"GOOGLE_API_KEY">>
          /\ config.status = "none"

----------------------------------------------------------------------------
(* Properties of the example tools, checked under SpecTools *)

\* execute has run on the calculator input
CalcExecuted == calc.stage \in {"returned", "raised"}

\* the b of the calculator input is zero
BIsZero == calc.input.b.kind = "float" /\ calc.input.b.n = 0

\* C7: for every calculator input with operation "divide": when b = 0,
\* execute fails with the division-by-zero error and returns no output; when
\* b # 0, it returns an output whose result is a/b (the result times b is a)
\* and whose operation field is "divide".
C7_DivideByZeroFailsElseQuotient ==
    /\ calc.stage = "constructed" => ENABLED CalculatorTool_execute
    /\ (CalcExecuted /\ calc.input.operation = "divide") =>
          IF BIsZero
          THEN /\ calc.stage = "raised"
               /\ calc.error = DivisionByZero
               /\ calc.output = NoCalculatorOutput
          ELSE /\ calc.stage = "returned"
               /\ calc.error = "none"
               /\ calc.output.operation = "divide"
               /\ IF calc.input.a.kind = "nan" \/ calc.input.b.kind = "nan"
                  THEN calc.output.result = NaN
                  ELSE Mul(calc.output.result, calc.input.b) = calc.input.a

\* C7 witness: a division with a zero dividend and a non-zero divisor has
\* returned its quotient.
C7_Witness ==
    /\ calc.stage = "returned"
    /\ calc.input = [operation |-> "divide", a |-> Rat(0, 1), b |-> Rat(-3, 1)]
    /\ calc.output.result = Rat(0, 1)

\* C8: for every calculator input whose operation is not add, subtract,
\* multiply or divide, whatever a and b (b = 0 included), execute fails with
\* the invalid-operation error; for every operation of that set, a divide by
\* zero apart, execute returns an output that echoes the operation.
C8_UnknownOperationFailsKnownEchoes ==
    CalcExecuted =>
       IF calc.input.operation \notin {"add", "subtract", "multiply", "divide"}
       THEN /\ calc.stage = "raised"
            /\ calc.error = InvalidOperation
            /\ calc.output = NoCalculatorOutput
       ELSE (~(calc.input.operation = "divide" /\ BIsZero)) =>
               /\ calc.stage = "returned"
               /\ calc.output.operation = calc.input.operation

\* C8 witness: execute has rejected the operation "modulo" with b = 0.
C8_Witness ==
    /\ calc.stage = "raised"
    /\ calc.input.operation = "modulo"
    /\ BIsZero
    /\ calc.error = InvalidOperation

\* C9, as claimed: input fields are validated when the record is constructed,
\* so no CalculatorInput with an operation outside {add, subtract, multiply,
\* divide} and no WebSearchInput with max_results outside [1, 10] exists, and
\* execute is never entered with one.
C9_NoInvalidInputIsConstructed ==
    /\ calc.stage \in {"constructed", "returned", "raised"} =>
          calc.input.operation \in {"add", "subtract", "multiply", "divide"}
    /\ search.stage \in {"constructed", "returned"} =>
          search.input.max_results \in 1..10

\* C9, amended: WebSearchInput checks max_results against [1, 10] when it is
\* constructed, and CalculatorInput checks that a and b are numbers, so such
\* input fails before execute runs; CalculatorInput does not check operation:
\* a record with any operation string is constructed, and it is execute that
\* rejects an operation outside the set, with the invalid-operation error.
C9_RangeCheckedAtConstructionOperationInExecute ==
    /\ search.stage \in {"constructed", "returned"} =>
          search.input.max_results \in 1..10
    /\ search.stage # "none" =>
          (search.stage = "invalid" <=>
              (search.args.max_results.set
                  /\ search.args.max_results.value \notin 1..10))
    /\ search.stage = "invalid" =>
          /\ search.error = "ValidationError"
          /\ search.output.results = <<>>
          /\ ~ENABLED WebSearchTool_execute
    /\ calc.stage # "none" =>
          (calc.stage = "invalid" <=>
              (calc.input.a.kind = "text" \/ calc.input.b.kind = "text"))
    /\ calc.stage = "invalid" => ~ENABLED CalculatorTool_execute
    /\ (CalcExecuted
          /\ calc.input.operation \notin {"add", "subtract", "multiply", "divide"}) =>
          /\ calc.stage = "raised"
          /\ calc.error = InvalidOperation

\* C9 witness: a WebSearchInput with max_results 11 was refused at
\* construction, and a CalculatorInput with operation "modulo" was
\* constructed and then rejected by execute.
C9_Witness ==
    /\ search.stage = "invalid"
    /\ search.args.max_results = [set |-> TRUE, value |-> 11]
    /\ calc.stage = "raised"
    /\ calc.input.operation = "modulo"
    /\ calc.error = InvalidOperation

Min(a, b) == IF a < b THEN a ELSE b

\* C10: for every valid web search input (max_results in 1..10) execute
\* returns the first min(2, max_results) entries of the pool of two
\* placeholder results, in pool order: never more than max_results, never
\* more than 2, never none; each result has the fields title, url and
\* snippet, and the output echoes the query unchanged.
C10_SearchReturnsTruncatedPool ==
    /\ search.stage = "constructed" => ENABLED WebSearchTool_execute
    /\ search.stage = "returned" =>
          LET n   == search.input.max_results
              out == search.output
          IN  /\ n \in 1..10
              /\ out.results = SubSeq(results(search.args.query), 1, Min(2, n))
              /\ Len(out.results) <= n
              /\ Len(out.results) <= 2
              /\ Len(out.results) >= 1
              /\ \A i \in 1..Len(out.results) :
                    DOMAIN out.results[i] = {"title", "url", "snippet"}
              /\ out.query = search.args.query

\* C10 witness: a search with max_results 1 has returned one result, the
\* first of the pool.
C10_Witness ==
    /\ search.stage = "returned"
    /\ search.input.max_results = 1
    /\ search.args.query = <<"test query">>
    /\ Len(search.output.results) = 1
    /\ search.output.results[1].url = <<"https://example.com/1">>

----------------------------------------------------------------------------
(* Properties of the logged messages, checked under Spec *)

\* the Message object id is an element of the list
InLog(id, list) == \E i \in 1..Len(list) : list[i] = id

\* C11: a Message is immutable once created: a message appended to the log
\* keeps its role and content in every later state in which it is still in
\* the log, whatever the agent operations and whatever the caller does with
\* the messages it got from get_history; a logged message leaves the log
\* through reset only.
C11_LoggedMessagesNeverChange ==
    [][\A id \in 1..Len(heap) :
          InLog(id, conversation_history) =>
             IF InLog(id, conversation_history')
             THEN /\ heap'[id].role = heap[id].role
                  /\ heap'[id].content = heap[id].content
             ELSE reset
      ]_vars

----------------------------------------------------------------------------
(* Properties of the history under the agent's calls, checked under
   SpecCalls *)

\* C12: turn pairing: in every state reached from a new agent by
\* register_tool, process, reset and get_history calls the history has even
\* length, with a "user" message at every even index (0-based) and an
\* "assistant" message at every odd one; the history is empty exactly when
\* no process call has happened since construction or the last reset (it
\* starts empty, process leaves it non-empty, reset leaves it empty, and the
\* other calls leave it as it is).
C12_TurnPairing ==
    /\ conversation_history = <<>>
    /\ [](/\ Len(conversation_history) % 2 = 0
          /\ \A i \in 1..Len(conversation_history) :
                HistoryMessages[i].role
                    = (IF (i - 1) % 2 = 0 THEN "user" ELSE "assistant"))
    /\ [][ /\ (\E u \in UserInputs : process(u)) => conversation_history' # <<>>
           /\ reset => conversation_history' = <<>>
           /\ (RegisterStep \/ get_history) =>
                 conversation_history' = conversation_history
         ]_vars

\* C12 witness: after a turn, a reset and another turn, with a tool
\* registered and the history fetched, the history holds the pair of the
\* second turn.
C12_Witness ==
    /\ conversation_history = <<3, 4>>
    /\ HistoryMessages[1].role = "user"
    /\ HistoryMessages[2].role = "assistant"
    /\ snapshot.held
    /\ snapshot.items = <<3, 4>>
    /\ DOMAIN tools # {}

====
